---- MODULE Spec2Model ----
(***************************************************************************)
(* State-machine model of src/index.js: the connection supervisor          *)
(* (startSocket and the connection.update handler) and the broadcast       *)
(* controller / dispatch loop (the /api/start, /api/stop, /api/clear-logs  *)
(* handlers and the sendMessages loop).                                    *)
(*                                                                         *)
(* Node runs every handler to its next await without interleaving, so one  *)
(* action is one such run-to-completion segment.  Timestamps of log        *)
(* entries are left out: an entry is its outcome, recipient and body.      *)
(* The messaging client is external; index.js never removes its listeners  *)
(* and never ends a socket it has dropped, so a handle that has reported   *)
(* close may report close again.  handles holds the handles that are       *)
(* opening or open; dropped counts those that have reported close.         *)
(* A behaviour handles at most MaxInputs requests, close events and loop   *)
(* faults; timers, promise settlements and the other socket events are     *)
(* not counted.                                                            *)
(***************************************************************************)
EXTENDS Integers, Sequences, FiniteSets, TLC

\* ------------------------------------------------------------------ bounds
MaxHandles == 2
MaxWorkers == 2
MaxLog == 3
MaxAttempts == 5
MaxTimers == 2
MaxParsing == 2
MaxGrace == 2
MaxDropped == 1
MaxInputs == 3

\* ------------------------------------------------------- program constants
DefaultDelay == 2
MinDigits == 10
MaxDigits == 15

NULL == 0

Handles == 1..MaxHandles
Workers == 1..MaxWorkers

\* ------------------------------------------------- start-request inputs
\* A raw receiver token: its text, whether it is all digits, its length, and
\* whether it ends with "@g.us".
TokX == [t |-> "911234567890", numeric |-> TRUE, len |-> 12, group |-> FALSE]
TokY == [t |-> "12345@g.us", numeric |-> FALSE, len |-> 10, group |-> TRUE]
TokBad == [t |-> "badid", numeric |-> FALSE, len |-> 5, group |-> FALSE]
TokShort == [t |-> "12345", numeric |-> TRUE, len |-> 5, group |-> FALSE]

\* A file line and the name field are sequences of words ("{name}" is the
\* placeholder word); NoFile is a request without the file part.
NoFile == <<"nofile">>
PlaceHolder == "{name}"

ReqA == [err |-> FALSE, name |-> <<>>, delay |-> 0,
         receiver |-> <<TokX, TokBad, TokY>>,
         file |-> <<<<"A">>, <<>>, <<"B", PlaceHolder>>>>]
ReqB == [err |-> FALSE, name |-> <<"N">>, delay |-> 3,
         receiver |-> <<TokY>>, file |-> <<<<"C">>>>]
ReqBadRecv == [err |-> FALSE, name |-> <<"N">>, delay |-> 1,
               receiver |-> <<TokBad, TokShort>>, file |-> <<<<"A">>>>]
ReqNoLines == [err |-> FALSE, name |-> <<>>, delay |-> 1,
               receiver |-> <<TokX>>, file |-> <<<<>>, <<PlaceHolder>>>>]
ReqNoRecv == [err |-> FALSE, name |-> <<"N">>, delay |-> 1,
              receiver |-> <<>>, file |-> <<<<"A">>>>]
ReqNoFile == [err |-> FALSE, name |-> <<"N">>, delay |-> 1,
              receiver |-> <<TokX>>, file |-> NoFile]
ReqFormErr == [err |-> TRUE, name |-> <<>>, delay |-> 0,
               receiver |-> <<>>, file |-> NoFile]

Requests == {ReqA, ReqB, ReqBadRecv, ReqNoLines, ReqNoRecv, ReqNoFile, ReqFormErr}

\* ------------------------------------------------------- pure functions
RECURSIVE SelectMap(_, _, _)
\* s.filter(Keep).map(Fn) of JavaScript, for the two operators given by name
SelectMap(s, keep, fn) ==
  IF s = <<>> THEN <<>>
  ELSE IF keep[Head(s)] THEN <<fn[Head(s)]>> \o SelectMap(Tail(s), keep, fn)
       ELSE SelectMap(Tail(s), keep, fn)

\* /^\d{10,15}$/.test(r) || r.endsWith('@g.us')
ValidReceiver(r) ==
  (r.numeric /\ r.len >= MinDigits /\ r.len <= MaxDigits) \/ r.group

\* r.endsWith('@g.us') ? r : r + '@s.whatsapp.net'
ToJid(r) == IF r.group THEN r.t ELSE r.t \o "@s.whatsapp.net"

ParseReceivers(raw) ==
  SelectMap(raw, [r \in {raw[k] : k \in DOMAIN raw} |-> ValidReceiver(r)],
                 [r \in {raw[k] : k \in DOMAIN raw} |-> ToJid(r)])

\* `${name} ${line.replace(/{name}/gi, '')}`.trim()
DeriveLine(name, line) == name \o SelectSeq(line, LAMBDA w : w # PlaceHolder)

ParseLines(name, file) ==
  SelectSeq([k \in DOMAIN file |-> DeriveLine(name, file[k])],
            LAMBDA l : l # <<>>)

\* parseInt(fields.delay) || 2
ParseDelay(d) == IF d = 0 THEN DefaultDelay ELSE d

\* log entries
Sent(jid, line) == <<"Sent", jid, line>>
Failed(jid, line) == <<"Failed", jid, line>>
Stopped == <<"Stopped">>
Crashed == <<"Crashed">>

\* ------------------------------------------------------------------ state
VARIABLES
  globalSocket,    \* NULL or the handle stored by startSocket
  qrData,          \* NULL or the handle whose challenge is stored
  isReady,         \* connectivity flag
  isLooping,       \* RunFlag
  currentLoop,     \* NULL or the worker whose promise is stored
  messageLogs,     \* LogSink
  lastMessages,    \* the stored job
  loopDefined,     \* sendMessages has been assigned the real loop
  handles,         \* the client handles made by makeWASocket, not yet closed
  dropped,         \* how many handles have reported close (up to MaxDropped)
  resetPending,    \* history: a logged-out close since the last makeWASocket
  creds,           \* the session folder: "empty" or "valid"
  connecting,      \* startSocket calls suspended at an await
  reconnectTimers, \* pending setTimeout(startSocket, ...)
  graceTimers,     \* pending setTimeout(() => messageLogs = [], 2000), oldest first
  parsing,         \* /api/start requests whose form.parse is pending
  workers,         \* the sendMessages() invocations
  inputs,          \* requests, close events and loop faults handled so far
  running,         \* the process is up: no promise was rejected unhandled
  last             \* the handler that ran last, and its HTTP response

vars == <<globalSocket, qrData, isReady, isLooping, currentLoop, messageLogs,
          lastMessages, loopDefined, handles, dropped, resetPending, creds,
          connecting,
          reconnectTimers, graceTimers, parsing, workers, inputs, running,
          last>>

socketVars == <<globalSocket, qrData, isReady, handles, dropped, resetPending,
                creds, connecting, reconnectTimers>>
loopVars == <<isLooping, currentLoop, messageLogs, lastMessages, loopDefined,
              workers>>

NoHandle == [st |-> "none", loaded |-> "empty", qr |-> FALSE, paired |-> FALSE]
\* n is a history field: the attempts a worker has made since its spawn, as
\* long as it is the loop that currentLoop holds and the flag is set (else 0);
\* halted is a history field: /api/stop has run since the worker's spawn;
\* delay is a history field: delaySec of the job the worker was spawned with
IdleWorker == [pc |-> "idle", lines |-> <<>>, receivers |-> <<>>, i |-> 0,
               j |-> 0, n |-> 0, halted |-> FALSE, delay |-> 0]

Phases == {"auth", "empty", "valid"}

Init ==
  /\ globalSocket = NULL
  /\ qrData = NULL
  /\ isReady = FALSE
  /\ isLooping = FALSE
  /\ currentLoop = NULL
  /\ messageLogs = <<>>
  /\ lastMessages = [receivers |-> <<>>, lines |-> <<>>, delaySec |-> DefaultDelay]
  /\ loopDefined = FALSE
  /\ handles = [h \in Handles |-> NoHandle]
  /\ dropped = 0
  /\ resetPending = FALSE
  /\ creds \in {"empty", "valid"}
  \* the call startSocket() at load has passed its guard and awaits the auth state
  /\ connecting = [p \in Phases |-> IF p = "auth" THEN 1 ELSE 0]
  /\ reconnectTimers = 0
  /\ graceTimers = <<>>
  /\ parsing = [r \in Requests |-> 0]
  /\ workers = [w \in Workers |-> IdleWorker]
  /\ inputs = 0
  /\ running = TRUE
  /\ last = [op |-> "load", res |-> "none"]

Live(w) == workers[w].pc \in {"sending", "pacing"}
LiveWorkers == {w \in Workers : Live(w)}
OpenOrOpening(h) == handles[h].st \in {"opening", "open"}
LiveHandles == {h \in Handles : OpenOrOpening(h)}
PendingStarts == connecting["auth"] + connecting["empty"] + connecting["valid"]
Sum(f) == f[ReqA] + f[ReqB] + f[ReqBadRecv] + f[ReqNoLines] + f[ReqNoRecv]
          + f[ReqNoFile] + f[ReqFormErr]

\* --------------------------------------------------------- dispatch loop
\* One send attempt of worker record wk at its current (line, recipient):
\* globalSocket.sendMessage(jid, ...) throws at once when globalSocket is
\* null (caught: Failed entry, then the pacing timer), else the send is in flight.
Attempt(wk, sock, logs, clean) ==
  LET n == IF clean THEN wk.n + 1 ELSE 0 IN
  IF sock = NULL
  THEN [wk |-> [wk EXCEPT !.pc = "pacing", !.n = n],
        logs |-> Append(logs, Failed(wk.receivers[wk.j], wk.lines[wk.i]))]
  ELSE [wk |-> [wk EXCEPT !.pc = "sending", !.n = n], logs |-> logs]

\* sendMessages() from its call to its first await: while (isLooping), the
\* first line, the first recipient, the flag check, the first send attempt.
Enter(flag, sock, logs, job) ==
  IF flag /\ job.lines # <<>> /\ job.receivers # <<>>
  THEN Attempt([IdleWorker EXCEPT !.lines = job.lines,
                                  !.receivers = job.receivers,
                                  !.i = 1, !.j = 1,
                                  !.delay = job.delaySec], sock, logs, TRUE)
  ELSE [wk |-> IdleWorker, logs |-> logs]

\* Resume with the recipient index kept when the next line begins
ResumeStaleIndex(wk, flag, sock, logs, job, clean) ==
  IF wk.j < Len(wk.receivers)
  THEN IF flag THEN Attempt([wk EXCEPT !.j = wk.j + 1], sock, logs, clean)
       ELSE [wk |-> IdleWorker, logs |-> logs]
  ELSE IF wk.i < Len(wk.lines)
  THEN IF flag /\ job.receivers # <<>>
       THEN Attempt([wk EXCEPT !.i = wk.i + 1, !.receivers = job.receivers,
                               !.j = IF wk.j <= Len(job.receivers)
                                     THEN wk.j ELSE 1], sock, logs, clean)
       ELSE [wk |-> IdleWorker, logs |-> logs]
  ELSE IF flag /\ job.lines # <<>> /\ job.receivers # <<>>
       THEN Attempt([wk EXCEPT !.lines = job.lines, !.i = 1,
                               !.receivers = job.receivers, !.j = 1],
                    sock, logs, clean)
       ELSE [wk |-> IdleWorker, logs |-> logs]

\* Resume where a cleared flag only skips the rest of the current line
ResumeSkipsLine(wk, flag, sock, logs, job, clean) ==
  IF flag /\ wk.j < Len(wk.receivers)
  THEN Attempt([wk EXCEPT !.j = wk.j + 1], sock, logs, clean)
  ELSE IF wk.i < Len(wk.lines) /\ job.receivers # <<>>
  THEN Attempt([wk EXCEPT !.i = wk.i + 1, !.receivers = job.receivers,
                          !.j = 1], sock, logs, clean)
  ELSE IF flag /\ job.lines # <<>> /\ job.receivers # <<>>
  THEN Attempt([wk EXCEPT !.lines = job.lines, !.i = 1,
                          !.receivers = job.receivers, !.j = 1],
               sock, logs, clean)
  ELSE [wk |-> IdleWorker, logs |-> logs]

\* The loop from the end of a pacing delay to its next await or its exit.
Resume(wk, flag, sock, logs, job, clean) ==
  IF wk.j < Len(wk.receivers)
  THEN \* next recipient of the same line; a cleared flag breaks the inner
       \* loop, and every further line breaks at its first recipient
       IF flag THEN Attempt([wk EXCEPT !.j = wk.j + 1], sock, logs, clean)
       ELSE [wk |-> IdleWorker, logs |-> logs]
  ELSE IF wk.i < Len(wk.lines)
  THEN \* next line of the array being iterated: lastMessages.receivers is read anew
       IF flag /\ job.receivers # <<>>
       THEN Attempt([wk EXCEPT !.i = wk.i + 1, !.receivers = job.receivers,
                               !.j = 1], sock, logs, clean)
       ELSE [wk |-> IdleWorker, logs |-> logs]
  ELSE \* both loops exhausted: while (isLooping) starts over
       IF flag /\ job.lines # <<>> /\ job.receivers # <<>>
       THEN Attempt([wk EXCEPT !.lines = job.lines, !.i = 1,
                               !.receivers = job.receivers, !.j = 1],
                    sock, logs, clean)
       ELSE [wk |-> IdleWorker, logs |-> logs]

FreeWorker == CHOOSE w \in Workers : ~Live(w) /\ \A v \in Workers : ~Live(v) => w <= v
HasFreeWorker == \E w \in Workers : ~Live(w)

Did(op, res) == [op |-> op, res |-> res]

\* ------------------------------------------------- connection supervisor
\* setTimeout(startSocket, ...) fires: startSocket() up to its first await
StartSocket ==
  /\ running
  /\ UNCHANGED <<inputs, running>>
  /\ reconnectTimers > 0
  /\ reconnectTimers' = reconnectTimers - 1
  /\ IF globalSocket # NULL
     THEN /\ connecting' = connecting
          /\ last' = Did("startSocket", "return")
     ELSE /\ connecting' = [connecting EXCEPT !["auth"] = @ + 1]
          /\ last' = Did("startSocket", "await")
  /\ UNCHANGED <<globalSocket, qrData, isReady, handles, dropped,
                 resetPending, creds, graceTimers, parsing>>
  /\ UNCHANGED loopVars

\* useMultiFileAuthState(sessionFolder) resolves with what the folder holds
LoadAuthState ==
  /\ running
  /\ UNCHANGED <<inputs, running>>
  /\ connecting["auth"] > 0
  /\ connecting' = [connecting EXCEPT !["auth"] = @ - 1, ![creds] = @ + 1]
  /\ last' = Did("loadAuthState", creds)
  /\ UNCHANGED <<globalSocket, qrData, isReady, handles, dropped,
                 resetPending, creds, reconnectTimers, graceTimers, parsing>>
  /\ UNCHANGED loopVars

\* fetchLatestBaileysVersion() resolves: makeWASocket, the listeners,
\* globalSocket = sock
MakeSocket(h, c) ==
  /\ running
  /\ UNCHANGED <<inputs, running>>
  /\ connecting[c] > 0
  /\ handles[h].st = "none"
  /\ \A g \in Handles : g < h => handles[g].st # "none"
  /\ connecting' = [connecting EXCEPT ![c] = @ - 1]
  /\ handles' = [handles EXCEPT ![h] = [NoHandle EXCEPT !.st = "opening",
                                                         !.loaded = c]]
  /\ globalSocket' = h
  /\ last' = Did("makeSocket", c)
  /\ resetPending' = FALSE
  /\ UNCHANGED <<qrData, isReady, dropped, creds, reconnectTimers,
                 graceTimers, parsing>>
  /\ UNCHANGED loopVars

\* connection.update carrying qr: a handle without credentials is challenged
QrEvent(h) ==
  /\ running
  /\ UNCHANGED <<inputs, running>>
  /\ handles[h].st = "opening"
  /\ handles[h].loaded = "empty" /\ ~handles[h].paired
  /\ qrData' = h
  /\ isReady' = FALSE
  /\ handles' = [handles EXCEPT ![h].qr = TRUE]
  /\ last' = Did("qr", "AwaitingScan")
  /\ UNCHANGED <<globalSocket, dropped, resetPending, creds, connecting,
                 reconnectTimers, graceTimers, parsing>>
  /\ UNCHANGED loopVars

\* creds.update -> saveCreds: the handle's credentials (those it loaded, or
\* those of a scanned challenge) are written to the session folder
CredsUpdate(h) ==
  /\ running
  /\ UNCHANGED <<inputs, running>>
  /\ OpenOrOpening(h)
  /\ handles[h].loaded = "valid" \/ handles[h].qr
  /\ creds' = "valid"
  /\ handles' = [handles EXCEPT ![h].paired = (handles[h].loaded = "empty")]
  /\ last' = Did("credsUpdate", "saved")
  /\ UNCHANGED <<globalSocket, qrData, isReady, dropped, resetPending,
                 connecting, reconnectTimers, graceTimers, parsing>>
  /\ UNCHANGED loopVars

\* the condition of the restart in the open branch, and one that restarts
\* whenever the flag is set
ResumeAlways == isLooping
ResumeCondition == isLooping /\ currentLoop = NULL

\* connection.update with connection === 'open'
OpenEvent(h) ==
  /\ running
  /\ UNCHANGED <<inputs, running>>
  /\ handles[h].st = "opening"
  /\ handles[h].loaded = "valid" \/ handles[h].paired
  /\ handles' = [handles EXCEPT ![h] = [NoHandle EXCEPT !.st = "open",
                                                         !.loaded = "valid"]]
  /\ isReady' = TRUE
  /\ qrData' = NULL
  /\ IF ResumeCondition
     THEN \* currentLoop = sendMessages()
          /\ HasFreeWorker
          /\ LET r == IF loopDefined
                      THEN Enter(isLooping, globalSocket, messageLogs, lastMessages)
                      ELSE [wk |-> IdleWorker, logs |-> messageLogs]
             IN /\ Len(r.logs) <= MaxLog
                /\ workers' = [workers EXCEPT ![FreeWorker] = r.wk]
                /\ messageLogs' = r.logs
                /\ currentLoop' = FreeWorker
          /\ last' = Did("open", "resumed")
     ELSE /\ UNCHANGED <<workers, messageLogs, currentLoop>>
          /\ last' = Did("open", "Connected")
  /\ UNCHANGED <<globalSocket, dropped, resetPending, creds, connecting,
                 reconnectTimers, graceTimers, parsing, isLooping,
                 lastMessages, loopDefined>>

\* the pending timers after setTimeout(startSocket, ...), and a close
\* handler that schedules nothing
ReconnectDropped == reconnectTimers
ReconnectScheduled == reconnectTimers + 1

\* The body of the handler for connection === 'close'
\* reset: fs.rmSync and fs.mkdirSync succeed; when one of them throws the
\* catch logs the error and the folder keeps what it holds
OnClose(loggedOut, reset) ==
  /\ running
  /\ inputs < MaxInputs
  /\ inputs' = inputs + 1
  /\ running' = running
  /\ reconnectTimers + PendingStarts < MaxTimers
  /\ isReady' = FALSE
  /\ qrData' = NULL
  /\ globalSocket' = NULL
  /\ IF loggedOut
     THEN \* fs.rmSync(sessionFolder), fs.mkdirSync(sessionFolder), 2000 ms
          /\ creds' = IF reset THEN "empty" ELSE creds
          /\ resetPending' = TRUE
          /\ last' = Did("close", "loggedOut")
     ELSE /\ UNCHANGED <<creds, resetPending>>
          /\ last' = Did("close", "reconnect")
  /\ reconnectTimers' = ReconnectScheduled
  /\ UNCHANGED <<connecting, graceTimers, parsing>>
  /\ UNCHANGED loopVars

\* connection.update with connection === 'close', from a handle that is
\* opening or open
CloseEvent(h, loggedOut, reset) ==
  /\ OpenOrOpening(h)
  /\ handles' = [handles EXCEPT ![h] = NoHandle]
  /\ dropped' = IF dropped < MaxDropped THEN dropped + 1 ELSE dropped
  /\ OnClose(loggedOut, reset)

\* the same event once more from a handle that has already reported close
CloseAgain(loggedOut, reset) ==
  /\ dropped > 0
  \* every startSocket call that is pending can still be given a handle
  /\ Cardinality(LiveHandles) + reconnectTimers + PendingStarts < MaxHandles
  /\ UNCHANGED <<handles, dropped>>
  /\ OnClose(loggedOut, reset)

\* -------------------------------------------------- broadcast controller
\* StartRequest without the check of isLooping
StartRequestUnguarded(r) ==
  /\ running
  /\ inputs < MaxInputs
  /\ inputs' = inputs + 1
  /\ running' = running
  /\ Sum(parsing) < MaxParsing
  /\ parsing' = [parsing EXCEPT ![r] = @ + 1]
  /\ last' = Did("startReq", "parsing")
  /\ UNCHANGED <<graceTimers>>
  /\ UNCHANGED socketVars
  /\ UNCHANGED loopVars

\* app.post('/api/start') up to form.parse
StartRequest(r) ==
  /\ running
  /\ inputs < MaxInputs
  /\ inputs' = inputs + 1
  /\ running' = running
  /\ IF isLooping
     THEN /\ parsing' = parsing
          /\ last' = Did("startReq", "AlreadyRunning")
     ELSE /\ Sum(parsing) < MaxParsing
          /\ parsing' = [parsing EXCEPT ![r] = @ + 1]
          /\ last' = Did("startReq", "parsing")
  /\ UNCHANGED <<graceTimers>>
  /\ UNCHANGED socketVars
  /\ UNCHANGED loopVars

\* StartCheck without the check of the connection
StartCheckNoConnection(r, sock, ready) ==
  IF r.err THEN "FormError"
  ELSE IF r.receiver = <<>> THEN "ReceiversRequired"
  ELSE IF r.file = NoFile THEN "FileRequired"
  ELSE IF ParseReceivers(r.receiver) = <<>> \/ ParseLines(r.name, r.file) = <<>>
       THEN "InvalidJob"
  ELSE "Started"

\* the outcome of the checks of the form.parse callback, in their order
StartCheck(r, sock, ready) ==
  IF r.err THEN "FormError"
  ELSE IF r.receiver = <<>> THEN "ReceiversRequired"
  ELSE IF r.file = NoFile THEN "FileRequired"
  ELSE IF ParseReceivers(r.receiver) = <<>> \/ ParseLines(r.name, r.file) = <<>>
       THEN "InvalidJob"
  ELSE IF sock = NULL \/ ~ready THEN "NotConnected"
  ELSE "Started"

JobOf(r) == [receivers |-> ParseReceivers(r.receiver),
             lines |-> ParseLines(r.name, r.file),
             delaySec |-> ParseDelay(r.delay)]

\* the form.parse callback of /api/start
StartParsed(r) ==
  /\ running
  /\ UNCHANGED <<inputs, running>>
  /\ parsing[r] > 0
  /\ parsing' = [parsing EXCEPT ![r] = @ - 1]
  /\ LET res == StartCheck(r, globalSocket, isReady) IN
     /\ last' = [op |-> "startParsed", res |-> res, req |-> r]
     /\ IF res = "Started"
        THEN /\ HasFreeWorker
             /\ isLooping' = TRUE
             /\ lastMessages' = JobOf(r)
             /\ loopDefined' = TRUE
             /\ LET e == Enter(TRUE, globalSocket, <<>>, JobOf(r)) IN
                /\ workers' = [workers EXCEPT ![FreeWorker] = e.wk]
                /\ messageLogs' = e.logs
             /\ currentLoop' = FreeWorker
        ELSE UNCHANGED loopVars
  /\ UNCHANGED <<graceTimers>>
  /\ UNCHANGED socketVars

\* what /api/stop stores in isLooping
StopFlag == FALSE

\* what /api/stop leaves in messageLogs
StopLogs == Append(messageLogs, Stopped)

\* app.post('/api/stop'); a grace timer remembers whether a run was stopped.
\* ok: the timestamp call after the two assignments returns; else it throws,
\* the handler ends there (no entry, no timer) and the response is an error
Stop(ok) ==
  /\ running
  /\ inputs < MaxInputs
  /\ inputs' = inputs + 1
  /\ running' = running
  /\ isLooping' = StopFlag
  /\ currentLoop' = NULL
  /\ IF ok
     THEN /\ Len(messageLogs) < MaxLog
          /\ Len(graceTimers) < MaxGrace
          /\ messageLogs' = StopLogs
          /\ graceTimers' = Append(graceTimers,
                                   IF isLooping THEN "run" ELSE "idle")
          /\ last' = Did("stop", "Stopped")
     ELSE /\ UNCHANGED <<messageLogs, graceTimers>>
          /\ last' = Did("stop", "Error")
  /\ workers' = [w \in Workers |->
                   IF Live(w) THEN [workers[w] EXCEPT !.halted = TRUE]
                   ELSE workers[w]]
  /\ UNCHANGED <<lastMessages, loopDefined, parsing>>
  /\ UNCHANGED socketVars

\* the callback of the timer set by /api/stop
GraceFire ==
  /\ running
  /\ UNCHANGED <<inputs, running>>
  /\ graceTimers # <<>>
  /\ graceTimers' = Tail(graceTimers)
  /\ messageLogs' = <<>>
  /\ last' = Did("graceFire", Head(graceTimers))
  /\ UNCHANGED <<isLooping, currentLoop, lastMessages, loopDefined, workers,
                 parsing>>
  /\ UNCHANGED socketVars

\* app.post('/api/clear-logs')
ClearLogs ==
  /\ running
  /\ inputs < MaxInputs
  /\ inputs' = inputs + 1
  /\ running' = running
  /\ messageLogs' = <<>>
  /\ last' = Did("clearLogs", "cleared")
  /\ UNCHANGED <<isLooping, currentLoop, lastMessages, loopDefined, workers,
                 parsing, graceTimers>>
  /\ UNCHANGED socketVars

\* app.get('/api/qr'), app.get('/api/logs'), app.get('/api/status') change
\* nothing: their responses are functions of the state
ApiQr == IF isReady THEN "authenticated"
         ELSE IF qrData = NULL THEN "notReady" ELSE "qr"
ApiLogs == messageLogs
ApiStatus == [isConnected |-> isReady, isLooping |-> isLooping,
              logCount |-> Len(messageLogs)]

\* ------------------------------------------------------ sendMessages steps
\* SendDone that sends the same pair again after a rejection
SendDoneRetry(w, ok) ==
  /\ running
  /\ UNCHANGED <<inputs, running>>
  /\ workers[w].pc = "sending"
  /\ Len(messageLogs) < MaxLog
  /\ LET wk == workers[w]
         pair == <<wk.receivers[wk.j], wk.lines[wk.i]>> IN
     /\ messageLogs' = Append(messageLogs,
                              IF ok THEN Sent(pair[1], pair[2])
                              ELSE Failed(pair[1], pair[2]))
     /\ workers' = [workers EXCEPT ![w].pc = IF ok THEN "pacing" ELSE "sending"]
  /\ last' = [op |-> "sendDone", res |-> IF ok THEN "Sent" ELSE "Failed",
              w |-> w, pace |-> lastMessages.delaySec]
  /\ UNCHANGED <<isLooping, currentLoop, lastMessages, loopDefined, parsing,
                 graceTimers>>
  /\ UNCHANGED socketVars

\* await globalSocket.sendMessage(...) settles: resolved or rejected
SendDone(w, ok) ==
  /\ running
  /\ UNCHANGED <<inputs, running>>
  /\ workers[w].pc = "sending"
  /\ Len(messageLogs) < MaxLog
  /\ LET wk == workers[w]
         pair == <<wk.receivers[wk.j], wk.lines[wk.i]>> IN
     /\ messageLogs' = Append(messageLogs,
                              IF ok THEN Sent(pair[1], pair[2])
                              ELSE Failed(pair[1], pair[2]))
     /\ workers' = [workers EXCEPT ![w].pc = "pacing"]
  /\ last' = [op |-> "sendDone", res |-> IF ok THEN "Sent" ELSE "Failed",
              w |-> w, pace |-> lastMessages.delaySec]
  /\ UNCHANGED <<isLooping, currentLoop, lastMessages, loopDefined, parsing,
                 graceTimers>>
  /\ UNCHANGED socketVars

\* the pacing timer fires: the loop runs on to its next await or its exit
PaceDone(w) ==
  /\ running
  /\ UNCHANGED <<inputs, running>>
  /\ workers[w].pc = "pacing"
  /\ LET r == Resume(workers[w], isLooping, globalSocket, messageLogs,
                     lastMessages, isLooping /\ currentLoop = w) IN
     /\ Len(r.logs) <= MaxLog
     /\ r.wk.n <= MaxAttempts
     /\ workers' = [workers EXCEPT ![w] = r.wk]
     /\ messageLogs' = r.logs
     /\ last' = [op |-> "paceDone",
                 res |-> IF r.wk.pc = "idle" THEN "exit"
                         ELSE IF r.wk.pc = "pacing" THEN "Failed" ELSE "sending",
                 w |-> w,
                 pace |-> IF r.wk.pc = "pacing" THEN lastMessages.delaySec ELSE 0]
  /\ UNCHANGED <<isLooping, currentLoop, lastMessages, loopDefined, parsing,
                 graceTimers>>
  /\ UNCHANGED socketVars

\* what the outer catch stores in isLooping
CrashFlag == FALSE

\* an exception escapes the per-send try/catch (the inner catch throws) and
\* the outer catch of sendMessages runs: in the continuation of a send that
\* has settled, or, at the end of a pacing delay, when the next attempt
\* throws at once because globalSocket is null.  caught: the outer catch runs
\* to its end; else its first statement (the same timestamp call as in the
\* inner catch) throws too: nothing is logged or reset, sendMessages ends
\* with its promise rejected and, nothing handling the rejection, the
\* process ends: no handler runs after that
LoopCrash(w, caught) ==
  /\ running
  /\ inputs < MaxInputs
  /\ inputs' = inputs + 1
  /\ running' = caught
  /\ \/ workers[w].pc = "sending"
     \/ /\ workers[w].pc = "pacing"
        /\ globalSocket = NULL
        /\ Resume(workers[w], isLooping, globalSocket, messageLogs,
                  lastMessages, FALSE).wk.pc = "pacing"
  /\ IF caught
     THEN /\ Len(messageLogs) < MaxLog
          /\ messageLogs' = Append(messageLogs, Crashed)
          /\ isLooping' = CrashFlag
          /\ currentLoop' = NULL
          /\ last' = Did("crash", "Crashed")
     ELSE /\ UNCHANGED <<messageLogs, isLooping, currentLoop>>
          /\ last' = Did("crash", "uncaught")
  /\ workers' = [workers EXCEPT ![w] = IdleWorker]
  /\ UNCHANGED <<lastMessages, loopDefined, parsing, graceTimers>>
  /\ UNCHANGED socketVars

Next ==
  \/ StartSocket
  \/ LoadAuthState
  \/ \E h \in Handles, c \in {"empty", "valid"} : MakeSocket(h, c)
  \/ \E h \in Handles : QrEvent(h)
  \/ \E h \in Handles : CredsUpdate(h)
  \/ \E h \in Handles : OpenEvent(h)
  \/ \E h \in Handles, lo \in BOOLEAN, ok \in BOOLEAN : CloseEvent(h, lo, ok)
  \/ \E lo \in BOOLEAN, ok \in BOOLEAN : CloseAgain(lo, ok)
  \/ \E r \in Requests : StartRequest(r)
  \/ \E r \in Requests : StartParsed(r)
  \/ \E ok \in BOOLEAN : Stop(ok)
  \/ GraceFire
  \/ ClearLogs
  \/ \E w \in Workers, ok \in BOOLEAN : SendDone(w, ok)
  \/ \E w \in Workers : PaceDone(w)
  \/ \E w \in Workers, caught \in BOOLEAN : LoopCrash(w, caught)

Spec == Init /\ [][Next]_vars

\* The process stays up, a timer that is set fires, and the promises
\* startSocket awaits settle
FairSpec ==
  /\ Init /\ [][Next /\ running']_vars
  /\ WF_vars(StartSocket)
  /\ WF_vars(LoadAuthState)
  /\ WF_vars(\E h \in Handles, c \in {"empty", "valid"} : MakeSocket(h, c))

\* =================================================================== claims

\* C1: in every reachable state at most one DispatchLoop worker is live
\* (spawned and not yet terminated).
C1_AtMostOneWorker == Cardinality(LiveWorkers) <= 1

\* C2: in every reachable state at most one client handle is opening or open.
C2_AtMostOneHandle == Cardinality(LiveHandles) <= 1

\* C3: a start request that arrives while RunFlag is true is answered
\* AlreadyRunning and changes neither the stored job, the LogSink, RunFlag,
\* the loop handle, the workers nor the pending form parses.
C3_StartWhileRunning ==
  [][(last'.op = "startReq" /\ isLooping) =>
       /\ last'.res = "AlreadyRunning"
       /\ UNCHANGED <<lastMessages, messageLogs, isLooping, currentLoop,
                      workers, loopDefined, parsing, graceTimers>>]_vars

C3_Witness ==
  /\ last.op = "startReq" /\ last.res = "AlreadyRunning"
  /\ isLooping /\ messageLogs # <<>> /\ LiveWorkers # {}

\* the request yields no job: a field is missing, or no receiver or no line
\* is left after filtering
InvalidRequest(r) ==
  \/ r.receiver = <<>>
  \/ r.file = NoFile
  \/ ParseReceivers(r.receiver) = <<>>
  \/ ParseLines(r.name, r.file) = <<>>

\* C4: a start callback whose request is invalid, or that finds no handle or
\* the state not Connected, reports a failure and changes neither RunFlag,
\* the stored job, the LogSink, the loop handle nor the workers.
C4_FailedStartMutatesNothing ==
  [][(/\ last'.op = "startParsed"
      /\ ~last'.req.err
      /\ InvalidRequest(last'.req) \/ globalSocket = NULL \/ ~isReady) =>
       /\ last'.res \in {"ReceiversRequired", "FileRequired", "InvalidJob",
                         "NotConnected"}
       /\ (InvalidRequest(last'.req) <=> last'.res # "NotConnected")
       /\ UNCHANGED <<isLooping, lastMessages, messageLogs, currentLoop,
                      workers, loopDefined, graceTimers>>]_vars

C4_Witness ==
  /\ last.op = "startParsed" /\ last.res = "InvalidJob"
  /\ isLooping /\ messageLogs # <<>> /\ LiveWorkers # {}

CountStopped(logs) == Len(SelectSeq(logs, LAMBDA e : e = Stopped))

\* C5: a stop handled right after a successful start leaves RunFlag false and
\* the LogSink holding exactly one Stopped entry, the one it appended.
C5_StartThenStop ==
  [][(last.op = "startParsed" /\ last.res = "Started" /\ last'.op = "stop") =>
       /\ ~isLooping'
       /\ messageLogs' = Append(messageLogs, Stopped)
       /\ CountStopped(messageLogs') = 1]_vars

NotStopped(logs) == SelectSeq(logs, LAMBDA e : e # Stopped)

\* C6: a stop handled while RunFlag is false succeeds, leaves RunFlag false
\* and appends the Stopped entry and nothing else; and nothing that follows
\* from that stop (the callback of the timer it set) adds or removes another
\* entry of the LogSink.
C6_IdleStopNoOp ==
  [][/\ (last'.op = "stop" /\ ~isLooping) =>
          /\ last'.res = "Stopped"
          /\ ~isLooping'
          /\ messageLogs' = Append(messageLogs, Stopped)
     /\ (last'.op = "graceFire" /\ last'.res = "idle") =>
          NotStopped(messageLogs') = NotStopped(messageLogs)]_vars

\* the k-th pair (k from 0) of a job in line-major, recipient-minor order
KthPair(job, k) ==
  <<job.lines[((k \div Len(job.receivers)) % Len(job.lines)) + 1],
    job.receivers[(k % Len(job.receivers)) + 1]>>
CurrentPair(wk) == <<wk.lines[wk.i], wk.receivers[wk.j]>>
\* the worker of the current run: no stop, crash or later start since its spawn
Clean(w) == Live(w) /\ isLooping /\ currentLoop = w

\* C7: while a job runs without stop, crash or a new start, the n-th send
\* attempt of its loop (n from 1) is for the pair number n - 1 of the job in
\* line-major, recipient-minor order, wrapping around.
C7_LineMajorOrder ==
  \A w \in Workers :
    Clean(w) => /\ workers[w].n >= 1
                /\ CurrentPair(workers[w]) = KthPair(lastMessages, workers[w].n - 1)

C7_Witness ==
  \E w \in Workers :
    /\ Clean(w) /\ workers[w].n = 5
    /\ Len(lastMessages.lines) = 2 /\ Len(lastMessages.receivers) = 2
    /\ CurrentPair(workers[w]) = <<lastMessages.lines[1], lastMessages.receivers[1]>>

\* the position after (i, j) in the arrays a worker iterates
NextPos(wk) ==
  IF wk.j < Len(wk.receivers) THEN <<wk.i, wk.j + 1>>
  ELSE IF wk.i < Len(wk.lines) THEN <<wk.i + 1, 1>>
  ELSE <<1, 1>>

\* C8: a failed send attempt appends exactly one Failed entry for its pair,
\* leaves RunFlag as it is and the worker at the pacing delay of that pair;
\* when the delay ends with RunFlag true the worker attempts the next pair.
C8_FailedSend ==
  [][/\ (last'.op \in {"sendDone", "paceDone"} /\ last'.res = "Failed") =>
          LET wk == workers'[last'.w] IN
          /\ messageLogs' = Append(messageLogs,
                                   Failed(wk.receivers[wk.j], wk.lines[wk.i]))
          /\ isLooping' = isLooping
          /\ wk.pc = "pacing"
          /\ last'.op = "sendDone" =>
               <<wk.i, wk.j>> = <<workers[last'.w].i, workers[last'.w].j>>
     /\ (last'.op = "paceDone" /\ isLooping) =>
          /\ last'.res # "exit"
          /\ <<workers'[last'.w].i, workers'[last'.w].j>> = NextPos(workers[last'.w])
          /\ isLooping']_vars

C8_Witness ==
  \E w \in Workers :
    /\ Clean(w) /\ workers[w].n = 2
    /\ messageLogs # <<>> /\ messageLogs[1][1] = "Failed"
    /\ CurrentPair(workers[w]) = KthPair(lastMessages, 1)

\* C9: after a close event during an active run (RunFlag true, no handle,
\* not Connected) the loop appends no log entry for an attempt it begins
\* before the next open event.
C9_PausedWhileDisconnected ==
  [][(isLooping /\ globalSocket = NULL /\ ~isReady /\ last'.op = "paceDone") =>
       messageLogs' = messageLogs]_vars

\* C10: a logged-out close empties the stored credentials; the next handle
\* made after it has loaded the empty credentials; a handle that loaded empty
\* credentials reaches open only after a qr challenge.
C10_LoggedOutReset ==
  [][/\ (last'.op = "close" /\ last'.res = "loggedOut") => creds' = "empty"
     /\ (last'.op = "makeSocket" /\ resetPending) => last'.res = "empty"
     /\ \A h \in Handles :
          (handles[h].st = "opening" /\ handles'[h].st = "open"
             /\ handles[h].loaded = "empty") => handles[h].qr]_vars

\* C11: RunFlag is checked before every send.  A worker whose pacing delay
\* ends with RunFlag false terminates without a send attempt and without a
\* log entry, and in no step that begins and ends with RunFlag false does a
\* worker begin a send: the sends that settle then were already in flight.
C11_NoSendAfterStop ==
  [][/\ (last'.op = "paceDone" /\ ~isLooping) =>
          /\ last'.res = "exit"
          /\ workers'[last'.w] = IdleWorker
          /\ messageLogs' = messageLogs
     /\ (~isLooping /\ ~isLooping') =>
          \A w \in Workers :
            Live(w)' => /\ Live(w)
                        /\ workers'[w].pc = "sending" => workers[w].pc = "sending"
                        /\ <<workers'[w].i, workers'[w].j>> =
                             <<workers[w].i, workers[w].j>>
                        /\ CurrentPair(workers'[w]) = CurrentPair(workers[w])]_vars

C11_Witness ==
  /\ last.op = "paceDone" /\ last.res = "exit" /\ ~isLooping
  /\ LiveWorkers = {} /\ graceTimers # <<>>
  /\ Len(messageLogs) = 2 /\ messageLogs[1] = Stopped
  /\ messageLogs[2][1] = "Sent"

\* C12: a worker that was live when a stop was handled terminates at the
\* end of its next pacing delay, whatever was handled in between, a new
\* start included.
C12_StoppedWorkerExits ==
  [][(last'.op = "paceDone" /\ workers[last'.w].halted) =>
       /\ last'.res = "exit"
       /\ workers'[last'.w] = IdleWorker]_vars

\* C13: the outer catch of the loop appends one Crashed entry, clears
\* RunFlag and the loop handle and ends its worker; as long as RunFlag stays
\* false afterwards no worker is spawned and no send is begun, and an open
\* event then reports Connected without touching the workers or the LogSink.
C13_CrashEndsRun ==
  [][/\ last'.op = "crash" =>
          /\ messageLogs' = Append(messageLogs, Crashed)
          /\ ~isLooping' /\ currentLoop' = NULL
          /\ \E w \in Workers :
               /\ Live(w) /\ workers'[w] = IdleWorker
               /\ \A v \in Workers \ {w} : workers'[v] = workers[v]
     /\ (last'.op = "open" /\ ~isLooping) =>
          /\ last'.res = "Connected"
          /\ UNCHANGED <<workers, messageLogs, isLooping, currentLoop>>
     /\ (~isLooping /\ last'.op # "startParsed") =>
          /\ ~isLooping'
          /\ \A w \in Workers :
               /\ workers'[w].pc = "sending" => workers[w].pc = "sending"
               /\ workers'[w].pc = "pacing" => Live(w)]_vars

\* a is an initial part of b
IsPrefix(a, b) == Len(a) <= Len(b) /\ SubSeq(b, 1, Len(a)) = a

\* C14: while a run is active (RunFlag true before and after the step) every
\* step other than a successful start, a stop, a crash or an explicit
\* clear-logs leaves the LogSink an extension of what it was.
C14_AppendOnlyDuringRun ==
  [][(isLooping /\ isLooping'
        /\ last'.op \notin {"startParsed", "stop", "crash", "clearLogs"}) =>
       IsPrefix(messageLogs, messageLogs')]_vars

\* C15: when a grace timer fires while the timer of a later stop is still
\* pending and the Stopped entry of that later stop is in the LogSink (no
\* clear-logs and no start since that stop), a Stopped entry is still there
\* afterwards.
C15_StoppedEntryKept ==
  [][(last'.op = "graceFire" /\ Len(graceTimers) >= 2
        /\ CountStopped(messageLogs) >= 1) =>
       CountStopped(messageLogs') >= 1]_vars

\* C16: a live worker keeps the lines and the recipients it was spawned
\* with, and each of its pacing delays is the delaySec of that job.
C16_JobReadOnly ==
  [][/\ \A w \in Workers :
          (Live(w) /\ Live(w)') =>
             /\ workers'[w].lines = workers[w].lines
             /\ workers'[w].receivers = workers[w].receivers
     /\ (last'.op \in {"sendDone", "paceDone"}
           /\ workers'[last'.w].pc = "pacing") =>
          last'.pace = workers'[last'.w].delay]_vars

\* C17: a close event discards the handle and sets a reconnect timer; no
\* state is without a handle and without a pending startSocket (a timer or
\* a call at an await); and, the timer firing and the awaited calls
\* settling, a state without a handle leads to one with a handle.
C17_ReconnectAlways ==
  /\ [][last'.op = "close" =>
          /\ globalSocket' = NULL /\ ~isReady'
          /\ reconnectTimers' = reconnectTimers + 1]_vars
  /\ [](globalSocket = NULL => reconnectTimers + PendingStarts > 0)
  /\ ((globalSocket = NULL) ~> (globalSocket # NULL))

C17_Witness ==
  /\ last.op = "makeSocket" /\ dropped > 0 /\ globalSocket # NULL
  /\ handles[globalSocket].st = "opening" /\ reconnectTimers = 0
  /\ PendingStarts = 0

\* no pending grace timer, no pending form parse, RunFlag false
Quiet == graceTimers = <<>> /\ Sum(parsing) = 0 /\ ~isLooping

\* C18: when a worker that was live at a stop terminates and leaves the
\* system quiescent (no live worker, no grace timer pending, no request
\* being parsed, RunFlag false; no crash entry), the LogSink holds no Sent
\* and no Failed entry.
C18_EmptyAfterStop ==
  [][(/\ last'.op = "paceDone" /\ last'.res = "exit"
      /\ workers[last'.w].halted
      /\ Quiet' /\ LiveWorkers' = {}
      /\ \A k \in DOMAIN messageLogs' : messageLogs'[k] # Crashed) =>
       \A k \in DOMAIN messageLogs' :
          messageLogs'[k][1] \notin {"Sent", "Failed"}]_vars

\* C19: in every state in which a handler can start (the process is up)
\* RunFlag true implies that the loop handle is set and that a worker is
\* live; an open event reports Connected and leaves the workers, the loop
\* handle and the LogSink as they are.
C19_LoopHandleSet ==
  /\ []((running /\ isLooping) => (currentLoop # NULL /\ LiveWorkers # {}))
  /\ [][last'.op = "open" =>
          /\ last'.res = "Connected"
          /\ UNCHANGED <<workers, currentLoop, messageLogs, isLooping>>]_vars

C19_Witness ==
  /\ last.op = "open" /\ last.res = "Connected" /\ running
  /\ isLooping /\ currentLoop \in LiveWorkers /\ dropped > 0
  /\ messageLogs # <<>> /\ messageLogs[Len(messageLogs)][1] = "Failed"

\* C20: in every reachable state the connectivity flag is set only while a
\* handle is stored.
C20_ReadyHasHandle == isReady => globalSocket # NULL

====
